---- MODULE Spec2Model ----
(***************************************************************************)
(* xkpasswd-rs: the Settings policy (src/settings/mod.rs), its validating  *)
(* builder and the word selection of its Randomizer.                       *)
(*                                                                         *)
(* A policy is a record with the fields of struct Settings.  Pairs (u8,u8) *)
(* are 2-tuples, Option<u8> is the empty set (None) or a singleton         *)
(* (Some(x)), PaddingStrategy is <<"Fixed">> or <<"Adaptive", n>>, and a   *)
(* Result is a record [ok, val] (Ok) or [ok, err] (Err).  A FieldSize bit  *)
(* mask is the set of the bits that are set in it.  A string is the        *)
(* sequence of its characters, a character a string that names it.         *)
(***************************************************************************)
EXTENDS Integers, Sequences, FiniteSets, TLC

(***************************************************************************)
(* Bounds of the model.                                                    *)
(***************************************************************************)
\* builder calls in one chain
MaxCalls == 2
\* largest words_count argument of with_words_count
MaxCount == 2
\* largest words_count of a policy a selection is run with
MaxWords == 3
\* largest Adaptive target passed to with_padding_strategy
MaxTarget == 1
\* longest word pool handed to build_words_list
MaxPool == 4
\* largest symbol count of a padding side / count passed to rand_chars
MaxRepeat == 2
\* largest Adaptive target of the policies the Randomizer is run with,
\* next to the targets 10 and 255
MaxAdaptive == 3
\* longest passphrase handed to adjust_padding, next to the lengths 6 and 12
MaxPassLen == 4
\* longest word pool handed to rand_words
MaxRandPool == 2
\* longest word pool handed to gen_pass
MaxGenPool == 3

(***************************************************************************)
(* Option, Result, PaddingStrategy                                         *)
(***************************************************************************)
None == {}

Some(x) == {x}

Option(S) == {None} \cup {Some(x) : x \in S}

is_none(o) == o = None

unwrap_or(o, default) == IF o = None THEN default ELSE CHOOSE x \in o : TRUE

Ok(v) == [ok |-> TRUE, val |-> v]

Err(e) == [ok |-> FALSE, err |-> e]

Fixed == <<"Fixed">>

Adaptive(n) == <<"Adaptive", n>>

(***************************************************************************)
(* bit_flags: the six WordTransform flags are distinct bits of a u8; the   *)
(* two remaining bits of the field carry no flag.                          *)
(***************************************************************************)
WordTransform ==
    {"Lowercase", "Titlecase", "Uppercase", "InversedTitlecase",
     "AltercaseLowerFirst", "AltercaseUpperFirst"}

FieldSize == SUBSET (WordTransform \cup {"Bit6", "Bit7"})

has_flag(field, flag) == flag \in field

from_flag(flag) == {flag}

(***************************************************************************)
(* Constants of impl Settings                                              *)
(***************************************************************************)
MIN_WORD_LENGTH == 4

MAX_WORD_LENGTH == 10

DEFAULT_PADDING_LENGTH == 2

DEFAULT_PADDING_STRATEGY == Fixed

DEFAULT_SEPARATORS == <<".", "-", "_", "~">>

DEFAULT_SYMBOLS ==
    <<"~", "@", "$", "%", "^", "&", "*", "-", "_", "+", "=", ":", "|", "~", "?", "/", ".", ";">>

DEFAULT_WORDS_COUNT == 3

DEFAULT_WORD_LENGTHS == <<MIN_WORD_LENGTH, MAX_WORD_LENGTH>>

DEFAULT_WORD_TRANSFORMS == {"Lowercase", "Uppercase"}

ALL_SINGLE_WORD_TRANSFORMS ==
    <<"Lowercase", "Titlecase", "Uppercase", "InversedTitlecase">>

MIN_WORD_LENGTH_ERR == "min word length must be 4 or higher"

MAX_WORD_LENGTH_ERR == "max word length must be 10 or lower"

WORDS_COUNT_ERR == "only positive integer is allowed for words count"

ADAPTIVE_ERR == "invalid adaptive padding number"

TRANSFORM_ERR == "invalid transform"

min(a, b) == IF a <= b THEN a ELSE b

max(a, b) == IF a >= b THEN a ELSE b

(***************************************************************************)
(* impl Default for Settings                                               *)
(***************************************************************************)
Settings_default ==
    [words_count            |-> DEFAULT_WORDS_COUNT,
     word_lengths           |-> DEFAULT_WORD_LENGTHS,
     word_transforms        |-> DEFAULT_WORD_TRANSFORMS,
     separators             |-> DEFAULT_SEPARATORS,
     padding_digits         |-> <<0, DEFAULT_PADDING_LENGTH>>,
     padding_symbols        |-> DEFAULT_SYMBOLS,
     padding_symbol_lengths |-> <<0, DEFAULT_PADDING_LENGTH>>,
     padding_strategy       |-> DEFAULT_PADDING_STRATEGY]

(***************************************************************************)
(* impl Builder for Settings.  Every method takes &self and returns a      *)
(* modified clone; self is the first parameter here.                       *)
(***************************************************************************)
\* with_words_count without the check for zero
with_words_count_unchecked(self, words_count) ==
    Ok([self EXCEPT !.words_count = words_count])

with_words_count(self, words_count) ==
    IF words_count = 0
    THEN Err(WORDS_COUNT_ERR)
    ELSE Ok([self EXCEPT !.words_count = words_count])

\* with_word_lengths without the check of the upper bound
with_word_lengths_unbounded(self, min_length, max_length) ==
    LET min_l == unwrap_or(min_length, self.word_lengths[1])
        max_l == unwrap_or(max_length, self.word_lengths[2])
        mn    == min(min_l, max_l)
        mx    == max(min_l, max_l)
    IN  IF mn < MIN_WORD_LENGTH THEN Err(MIN_WORD_LENGTH_ERR)
        ELSE Ok([self EXCEPT !.word_lengths = <<mn, mx>>])

\* with_word_lengths storing the pair in the order it was given
with_word_lengths_unordered(self, min_length, max_length) ==
    LET min_l == unwrap_or(min_length, self.word_lengths[1])
        max_l == unwrap_or(max_length, self.word_lengths[2])
        mn    == min(min_l, max_l)
        mx    == max(min_l, max_l)
    IN  IF mn < MIN_WORD_LENGTH THEN Err(MIN_WORD_LENGTH_ERR)
        ELSE IF mx > MAX_WORD_LENGTH THEN Err(MAX_WORD_LENGTH_ERR)
        ELSE Ok([self EXCEPT !.word_lengths = <<min_l, max_l>>])

\* with_word_lengths checking the upper bound before the lower one
with_word_lengths_long_first(self, min_length, max_length) ==
    LET min_l == unwrap_or(min_length, self.word_lengths[1])
        max_l == unwrap_or(max_length, self.word_lengths[2])
        mn    == min(min_l, max_l)
        mx    == max(min_l, max_l)
    IN  IF mx > MAX_WORD_LENGTH THEN Err(MAX_WORD_LENGTH_ERR)
        ELSE IF mn < MIN_WORD_LENGTH THEN Err(MIN_WORD_LENGTH_ERR)
        ELSE Ok([self EXCEPT !.word_lengths = <<mn, mx>>])

with_word_lengths(self, min_length, max_length) ==
    LET min_l == unwrap_or(min_length, self.word_lengths[1])
        max_l == unwrap_or(max_length, self.word_lengths[2])
        mn    == min(min_l, max_l)
        mx    == max(min_l, max_l)
    IN  IF mn < MIN_WORD_LENGTH THEN Err(MIN_WORD_LENGTH_ERR)
        ELSE IF mx > MAX_WORD_LENGTH THEN Err(MAX_WORD_LENGTH_ERR)
        ELSE Ok([self EXCEPT !.word_lengths = <<mn, mx>>])

with_separators(self, separators) ==
    [self EXCEPT !.separators = separators]

\* with_padding_digits with the last assignment of with_padding_symbol_lengths
with_padding_digits_forces_fixed(self, prefix, suffix) ==
    IF is_none(prefix) /\ is_none(suffix)
    THEN self
    ELSE [self EXCEPT
              !.padding_digits =
                  <<unwrap_or(prefix, self.padding_digits[1]),
                    unwrap_or(suffix, self.padding_digits[2])>>,
              !.padding_strategy = Fixed]

with_padding_digits(self, prefix, suffix) ==
    IF is_none(prefix) /\ is_none(suffix)
    THEN self
    ELSE [self EXCEPT !.padding_digits =
              <<unwrap_or(prefix, self.padding_digits[1]),
                unwrap_or(suffix, self.padding_digits[2])>>]

with_padding_symbols(self, symbols) ==
    [self EXCEPT !.padding_symbols = symbols]

\* with_padding_symbol_lengths leaving the strategy alone
with_padding_symbol_lengths_keeps_strategy(self, prefix, suffix) ==
    IF is_none(prefix) /\ is_none(suffix)
    THEN self
    ELSE [self EXCEPT
              !.padding_symbol_lengths =
                  <<unwrap_or(prefix, self.padding_symbol_lengths[1]),
                    unwrap_or(suffix, self.padding_symbol_lengths[2])>>]

with_padding_symbol_lengths(self, prefix, suffix) ==
    IF is_none(prefix) /\ is_none(suffix)
    THEN self
    ELSE [self EXCEPT
              !.padding_symbol_lengths =
                  <<unwrap_or(prefix, self.padding_symbol_lengths[1]),
                    unwrap_or(suffix, self.padding_symbol_lengths[2])>>,
              !.padding_strategy = Fixed]

\* with_padding_strategy leaving the symbol lengths alone
with_padding_strategy_keeps_lengths(self, strategy) ==
    IF strategy = Adaptive(0)
    THEN Err(ADAPTIVE_ERR)
    ELSE Ok([self EXCEPT !.padding_strategy = strategy])

\* with_padding_strategy clearing the symbol lengths for Adaptive only
with_padding_strategy_adaptive_only(self, strategy) ==
    IF strategy = Adaptive(0)
    THEN Err(ADAPTIVE_ERR)
    ELSE IF strategy = Fixed
    THEN Ok([self EXCEPT !.padding_strategy = strategy])
    ELSE Ok([self EXCEPT !.padding_strategy = strategy,
                         !.padding_symbol_lengths = <<0, 0>>])

with_padding_strategy(self, strategy) ==
    IF strategy = Adaptive(0)
    THEN Err(ADAPTIVE_ERR)
    ELSE Ok([self EXCEPT !.padding_strategy = strategy,
                         !.padding_symbol_lengths = <<0, 0>>])

\* with_word_transforms without the check for a usable flag
with_word_transforms_unchecked(self, transforms) ==
    IF has_flag(transforms, "AltercaseLowerFirst")
    THEN Ok([self EXCEPT !.word_transforms = from_flag("AltercaseLowerFirst")])
    ELSE IF has_flag(transforms, "AltercaseUpperFirst")
    THEN Ok([self EXCEPT !.word_transforms = from_flag("AltercaseUpperFirst")])
    ELSE Ok([self EXCEPT !.word_transforms = transforms])

\* with_word_transforms keeping the flags given alongside an altercase flag
with_word_transforms_combined(self, transforms) ==
    IF /\ ~has_flag(transforms, "AltercaseLowerFirst")
       /\ ~has_flag(transforms, "AltercaseUpperFirst")
       /\ ~has_flag(transforms, "Lowercase")
       /\ ~has_flag(transforms, "Titlecase")
       /\ ~has_flag(transforms, "Uppercase")
       /\ ~has_flag(transforms, "InversedTitlecase")
    THEN Err(TRANSFORM_ERR)
    ELSE Ok([self EXCEPT !.word_transforms = transforms])

with_word_transforms(self, transforms) ==
    IF has_flag(transforms, "AltercaseLowerFirst")
    THEN Ok([self EXCEPT !.word_transforms = from_flag("AltercaseLowerFirst")])
    ELSE IF has_flag(transforms, "AltercaseUpperFirst")
    THEN Ok([self EXCEPT !.word_transforms = from_flag("AltercaseUpperFirst")])
    ELSE IF /\ ~has_flag(transforms, "Lowercase")
            /\ ~has_flag(transforms, "Titlecase")
            /\ ~has_flag(transforms, "Uppercase")
            /\ ~has_flag(transforms, "InversedTitlecase")
    THEN Err(TRANSFORM_ERR)
    ELSE Ok([self EXCEPT !.word_transforms = transforms])

Preset ==
    {"AppleID", "Default", "WindowsNtlmV1", "SecurityQuestions",
     "Web16", "Web32", "Wifi", "Xkcd"}

from_preset(preset) ==
    CASE preset = "AppleID" ->
           [words_count            |-> 3,
            word_lengths           |-> <<5, 7>>,
            word_transforms        |-> {"Lowercase", "Uppercase"},
            separators             |-> <<"-", ":", ".", ",">>,
            padding_digits         |-> <<2, 2>>,
            padding_symbols        |-> <<"!", "?", "@", "&">>,
            padding_symbol_lengths |-> <<1, 1>>,
            padding_strategy       |-> Fixed]
      [] preset = "WindowsNtlmV1" ->
           [words_count            |-> 2,
            word_lengths           |-> <<5, 5>>,
            word_transforms        |-> from_flag("InversedTitlecase"),
            separators             |-> <<"-", "+", "=", ".", "*", "_", "|", "~", ",">>,
            padding_digits         |-> <<1, 0>>,
            padding_symbols        |-> <<"!", "@", "$", "%", "^", "&", "*", "+", "=", ":", "|", "~", "?">>,
            padding_symbol_lengths |-> <<0, 1>>,
            padding_strategy       |-> Fixed]
      [] preset = "SecurityQuestions" ->
           [words_count            |-> 6,
            word_lengths           |-> <<4, 8>>,
            word_transforms        |-> from_flag("Lowercase"),
            separators             |-> <<" ">>,
            padding_digits         |-> <<0, 0>>,
            padding_symbols        |-> <<".", "!", "?">>,
            padding_symbol_lengths |-> <<0, 1>>,
            padding_strategy       |-> Fixed]
      [] preset = "Web16" ->
           [words_count            |-> 3,
            word_lengths           |-> <<4, 4>>,
            word_transforms        |-> {"Lowercase", "Uppercase"},
            separators             |-> <<"-", "+", "=", ".", "*", "_", "|", "~", ",">>,
            padding_digits         |-> <<0, 0>>,
            padding_symbols        |-> <<"!", "@", "$", "%", "^", "&", "*", "+", "=", ":", "|", "~", "?">>,
            padding_symbol_lengths |-> <<1, 1>>,
            padding_strategy       |-> Fixed]
      [] preset = "Web32" ->
           [words_count            |-> 4,
            word_lengths           |-> <<4, 5>>,
            word_transforms        |-> from_flag("AltercaseUpperFirst"),
            separators             |-> <<"-", "+", "=", ".", "*", "_", "|", "~", ",">>,
            padding_digits         |-> <<2, 2>>,
            padding_symbols        |-> <<"!", "@", "$", "%", "^", "&", "*", "+", "=", ":", "|", "~", "?">>,
            padding_symbol_lengths |-> <<1, 1>>,
            padding_strategy       |-> Fixed]
      [] preset = "Wifi" ->
           [words_count            |-> 6,
            word_lengths           |-> <<4, 8>>,
            word_transforms        |-> {"Lowercase", "Uppercase"},
            separators             |-> <<"-", "+", "=", ".", "*", "_", "|", "~", ",">>,
            padding_digits         |-> <<4, 4>>,
            padding_symbols        |-> <<"!", "@", "$", "%", "^", "&", "*", "+", "=", ":", "|", "~", "?">>,
            padding_symbol_lengths |-> <<0, 0>>,
            padding_strategy       |-> Adaptive(63)]
      [] preset = "Xkcd" ->
           [words_count            |-> 4,
            word_lengths           |-> <<4, 8>>,
            word_transforms        |-> {"Lowercase", "Uppercase"},
            separators             |-> <<"-">>,
            padding_digits         |-> <<0, 0>>,
            padding_symbols        |-> <<>>,
            padding_symbol_lengths |-> <<0, 0>>,
            padding_strategy       |-> Fixed]
      [] OTHER -> Settings_default

\* the single-word transforms the sampling branch of build_transforms_list
\* draws from
\* the whitelist taking every single-word transform, enabled or not
whitelisted_transforms_all(self) ==
    SelectSeq(ALL_SINGLE_WORD_TRANSFORMS, LAMBDA transform : TRUE)

whitelisted_transforms(self) ==
    SelectSeq(ALL_SINGLE_WORD_TRANSFORMS,
              LAMBDA transform : has_flag(self.word_transforms, transform))

(***************************************************************************)
(* Arguments the builder calls are tried with.                             *)
(***************************************************************************)
CountArgs == 0 .. MaxCount

LengthArgs ==
    Option({MIN_WORD_LENGTH - 1, MIN_WORD_LENGTH, MIN_WORD_LENGTH + 2,
            MAX_WORD_LENGTH, MAX_WORD_LENGTH + 1})

SeparatorArgs == {<<>>, <<".">>}

SymbolArgs == {<<>>, <<"#">>}

PadArgs == Option({0, DEFAULT_PADDING_LENGTH + 1})

StrategyArgs == {Fixed} \cup {Adaptive(n) : n \in 0 .. MaxTarget}

\* the empty mask, every single bit, every pair of bits
TransformArgs ==
    {{}} \cup {{f, g} : f, g \in WordTransform \cup {"Bit6", "Bit7"}}

(***************************************************************************)
(* State.  settings is the policy the caller holds; self, call and ret     *)
(* record the last builder call: the policy it was made on, its name and   *)
(* arguments, and what it returned.  pool, index, index_marker and         *)
(* words_list are the argument, the locals and the result of one run of    *)
(* build_words_list, indices the pool indices its words were taken from,   *)
(* and pc its position.  Pool indices count from 0 as in the code.  For a  *)
(* call of the Randomizer, call and ret hold its name, arguments and       *)
(* result, rng the values it drew from the random source, and              *)
(* transforms_list the list build_transforms_list made.                    *)
(***************************************************************************)
VARIABLES settings, self, call, ret, ncalls,
          pool, index, index_marker, words_list, indices, pc,
          rng, transforms_list

builderVars == <<settings, self, call, ret, ncalls>>

wordVars == <<pool, index, index_marker, words_list, indices, pc>>

genVars == <<rng, transforms_list>>

vars == <<settings, self, call, ret, ncalls,
          pool, index, index_marker, words_list, indices, pc,
          rng, transforms_list>>

\* no selection running
WordsIdle ==
    /\ pool = <<>>
    /\ index = None
    /\ index_marker = <<>>
    /\ words_list = <<>>
    /\ indices = <<>>
    /\ pc = "idle"

\* nothing drawn, no transforms chosen
GenIdle ==
    /\ rng = <<>>
    /\ transforms_list = <<>>

\* a policy is born from Default or from_preset
Init ==
    /\ \E preset \in Preset : settings = from_preset(preset)
    /\ self = settings
    /\ call = [op |-> "from_preset", args |-> <<>>]
    /\ ret = Ok(settings)
    /\ ncalls = 0
    /\ WordsIdle
    /\ GenIdle

\* one builder call on the policy the caller holds: the call returns r; on Ok
\* the caller goes on with the new policy, on Err it keeps the one it had
Call(op, args, r) ==
    /\ ncalls < MaxCalls
    /\ self' = settings
    /\ call' = [op |-> op, args |-> args]
    /\ ret' = r
    /\ settings' = IF r.ok THEN r.val ELSE settings
    /\ ncalls' = ncalls + 1
    /\ UNCHANGED <<wordVars, genVars>>

\* the builder call c made on the policy this, with its result
builder_call(this, c) ==
    CASE c.op = "with_words_count" -> with_words_count(this, c.args[1])
      [] c.op = "with_word_lengths" ->
             with_word_lengths(this, c.args[1], c.args[2])
      [] c.op = "with_separators" -> Ok(with_separators(this, c.args[1]))
      [] c.op = "with_padding_digits" ->
             Ok(with_padding_digits(this, c.args[1], c.args[2]))
      [] c.op = "with_padding_symbols" ->
             Ok(with_padding_symbols(this, c.args[1]))
      [] c.op = "with_padding_symbol_lengths" ->
             Ok(with_padding_symbol_lengths(this, c.args[1], c.args[2]))
      [] c.op = "with_padding_strategy" ->
             with_padding_strategy(this, c.args[1])
      [] c.op = "with_word_transforms" ->
             with_word_transforms(this, c.args[1])

WithWordsCount ==
    \E n \in CountArgs :
        Call("with_words_count", <<n>>, with_words_count(settings, n))

WithWordLengths ==
    \E mn \in LengthArgs, mx \in LengthArgs :
        Call("with_word_lengths", <<mn, mx>>, with_word_lengths(settings, mn, mx))

WithSeparators ==
    \E s \in SeparatorArgs :
        Call("with_separators", <<s>>, Ok(with_separators(settings, s)))

WithPaddingDigits ==
    \E p \in PadArgs, s \in PadArgs :
        Call("with_padding_digits", <<p, s>>, Ok(with_padding_digits(settings, p, s)))

WithPaddingSymbols ==
    \E s \in SymbolArgs :
        Call("with_padding_symbols", <<s>>, Ok(with_padding_symbols(settings, s)))

WithPaddingSymbolLengths ==
    \E p \in PadArgs, s \in PadArgs :
        Call("with_padding_symbol_lengths", <<p, s>>,
             Ok(with_padding_symbol_lengths(settings, p, s)))

WithPaddingStrategy ==
    \E s \in StrategyArgs :
        Call("with_padding_strategy", <<s>>, with_padding_strategy(settings, s))

WithWordTransforms ==
    \E t \in TransformArgs :
        Call("with_word_transforms", <<t>>, with_word_transforms(settings, t))

Next ==
    \/ WithWordsCount
    \/ WithWordLengths
    \/ WithSeparators
    \/ WithPaddingDigits
    \/ WithPaddingSymbols
    \/ WithPaddingSymbolLengths
    \/ WithPaddingStrategy
    \/ WithWordTransforms

Spec == Init /\ [][Next]_vars

(***************************************************************************)
(* Word selection: build_words_list.  A word is a sequence of characters.  *)
(***************************************************************************)
PoolWords ==
    {<<"f", "o", "o">>, <<"F", "o", "o">>, <<"b", "a", "r">>, <<"b", "a", "z">>}

Pools == UNION {[1 .. n -> PoolWords] : n \in 0 .. MaxPool}

char_to_lowercase(c) ==
    CASE c = "F" -> "f"
      [] c = "O" -> "o"
      [] c = "B" -> "b"
      [] c = "A" -> "a"
      [] c = "R" -> "r"
      [] c = "Z" -> "z"
      [] c = "U+00C9" -> "U+00E9"
      [] OTHER -> c

to_lowercase(word) == [k \in DOMAIN word |-> char_to_lowercase(word[k])]

char_to_uppercase(c) ==
    CASE c = "f" -> "F"
      [] c = "o" -> "O"
      [] c = "b" -> "B"
      [] c = "a" -> "A"
      [] c = "r" -> "R"
      [] c = "z" -> "Z"
      [] c = "U+00E9" -> "U+00C9"
      [] OTHER -> c

to_uppercase(word) == [k \in DOMAIN word |-> char_to_uppercase(word[k])]

\* HashMap::insert(index, true)
insert(marker, key) ==
    [k \in DOMAIN marker \cup {key} |-> IF k = key THEN TRUE ELSE marker[k]]

\* the selection is handed a policy made by the builder and a pool
InitWords ==
    /\ \E n \in 1 .. MaxWords :
          /\ self = Settings_default
          /\ call = [op |-> "with_words_count", args |-> <<n>>]
          /\ ret = with_words_count(Settings_default, n)
          /\ settings = ret.val
    /\ ncalls = 1
    /\ pool \in Pools
    /\ index = None
    /\ index_marker = <<>>
    /\ words_list = <<>>
    /\ indices = <<>>
    /\ pc = "start"
    /\ GenIdle

\* build_words_list entering the loop for every non-empty pool
BuildWordsList_always_loop ==
    /\ pc = "start"
    /\ IF pool = <<>>
       THEN pc' = "done"
       ELSE pc' = "loop"
    /\ UNCHANGED <<pool, index, index_marker, words_list, indices>>
    /\ UNCHANGED <<builderVars, genVars>>

\* entry: the empty pool, the choice between the two branches
BuildWordsList ==
    /\ pc = "start"
    /\ IF pool = <<>>
       THEN pc' = "done"
       ELSE IF Len(pool) < settings.words_count
       THEN pc' = "sample"
       ELSE pc' = "loop"
    /\ UNCHANGED <<pool, index, index_marker, words_list, indices>>
    /\ UNCHANGED <<builderVars, genVars>>

\* not enough words: one iteration of the map, with replacement
SampleWord(i) ==
    /\ pc = "sample"
    /\ index' = Some(i)
    /\ words_list' = Append(words_list, pool[i + 1])
    /\ indices' = Append(indices, i)
    /\ pc' = IF Len(words_list') = settings.words_count THEN "done" ELSE "sample"
    /\ UNCHANGED <<pool, index_marker>>
    /\ UNCHANGED <<builderVars, genVars>>

\* the loop breaking with whatever index it samples
DrawWord_unmarked(i) ==
    /\ pc = "loop"
    /\ index' = Some(i)
    /\ index_marker' = insert(index_marker, i)
    /\ words_list' = Append(words_list, pool[i + 1])
    /\ indices' = Append(indices, i)
    /\ pc' = IF Len(words_list') = settings.words_count THEN "done" ELSE "loop"
    /\ UNCHANGED pool
    /\ UNCHANGED <<builderVars, genVars>>

\* enough words: one round of the loop, which breaks with the word when its
\* index is not marked yet and samples again otherwise
DrawWord(i) ==
    /\ pc = "loop"
    /\ index' = Some(i)
    /\ IF i \notin DOMAIN index_marker
       THEN /\ index_marker' = insert(index_marker, i)
            /\ words_list' = Append(words_list, pool[i + 1])
            /\ indices' = Append(indices, i)
            /\ pc' = IF Len(words_list') = settings.words_count
                     THEN "done" ELSE "loop"
       ELSE UNCHANGED <<index_marker, words_list, indices, pc>>
    /\ UNCHANGED pool
    /\ UNCHANGED <<builderVars, genVars>>

Sample == \E i \in 0 .. Len(pool) - 1 : SampleWord(i)

Draw == \E i \in 0 .. Len(pool) - 1 : DrawWord(i)

NextWords ==
    \/ BuildWordsList
    \/ Sample
    \/ Draw

SpecWords == InitWords /\ [][NextWords]_vars

\* the selection under a fair random source: every index of the pool is drawn
\* again and again, and the code between the draws runs on
SpecWordsFair ==
    /\ InitWords
    /\ [][NextWords]_vars
    /\ WF_vars(BuildWordsList)
    /\ \A i \in 0 .. MaxPool - 1 :
           /\ WF_vars(i < Len(pool) /\ SampleWord(i))
           /\ WF_vars(i < Len(pool) /\ DrawWord(i))

(***************************************************************************)
(* Properties of the builder, checked under Spec.                          *)
(***************************************************************************)
AltercaseFlags == {"AltercaseLowerFirst", "AltercaseUpperFirst"}

SingleWordFlags == {"Lowercase", "Titlecase", "Uppercase", "InversedTitlecase"}

Fields ==
    {"words_count", "word_lengths", "word_transforms", "separators",
     "padding_digits", "padding_symbols", "padding_symbol_lengths",
     "padding_strategy"}

IsAdaptive(strategy) == strategy[1] = "Adaptive"

\* the last call returned a policy that equals the one it was made on in
\* every field outside changed
SameExcept(changed) ==
    /\ ret.ok
    /\ \A f \in Fields \ changed : ret.val[f] = self[f]

C2_PolicyWithinBounds ==
    /\ settings.words_count >= 1
    /\ 4 <= settings.word_lengths[1]
    /\ settings.word_lengths[1] <= settings.word_lengths[2]
    /\ settings.word_lengths[2] <= 10
    /\ settings.padding_strategy # <<"Adaptive", 0>>

\* a call with a length out of range failed after an earlier call succeeded
C2_Witness ==
    /\ call.op = "with_word_lengths"
    /\ ~ret.ok
    /\ ncalls = 2
    /\ settings # from_preset("Default")

\* C3: every reachable policy has a usable transform set: one altercase flag
\* alone, or at least one single-word flag and no altercase flag; so the list
\* build_transforms_list samples from is not empty.
C3_TransformsUsable ==
    LET t == settings.word_transforms
    IN  /\ \/ t = {"AltercaseLowerFirst"}
           \/ t = {"AltercaseUpperFirst"}
           \/ /\ t \cap SingleWordFlags # {}
              /\ t \cap AltercaseFlags = {}
        /\ t \cap AltercaseFlags = {}
               => Len(whitelisted_transforms(settings)) >= 1

\* a transform set was accepted that has a single-word flag next to a bit
\* that is no flag
C3_Witness ==
    /\ call.op = "with_word_transforms"
    /\ ret.ok
    /\ settings.word_transforms = {"Titlecase", "Bit7"}

\* C4 as stated: every call of with_padding_symbol_lengths, whatever is set or
\* unset, returns a policy with strategy Fixed.
C4_AlwaysFixed ==
    call.op = "with_padding_symbol_lengths"
        => ret.val.padding_strategy = <<"Fixed">>

\* C4 amended: a call of with_padding_symbol_lengths with at least one side
\* set returns a policy with strategy Fixed, also on an Adaptive policy; with
\* both sides unset it returns the policy as it is, its strategy included.
C4_FixedWhenSet ==
    call.op = "with_padding_symbol_lengths"
        => IF call.args = <<{}, {}>>
           THEN ret.val = self
           ELSE ret.val.padding_strategy = <<"Fixed">>

\* a side was set on an Adaptive policy
C4_Witness ==
    /\ call.op = "with_padding_symbol_lengths"
    /\ call.args # <<{}, {}>>
    /\ IsAdaptive(self.padding_strategy)
    /\ settings.padding_strategy = <<"Fixed">>

C6_WordLengths ==
    call.op = "with_word_lengths"
        => LET a  == IF call.args[1] = {} THEN self.word_lengths[1]
                     ELSE CHOOSE x \in call.args[1] : TRUE
               b  == IF call.args[2] = {} THEN self.word_lengths[2]
                     ELSE CHOOSE x \in call.args[2] : TRUE
               lo == IF a <= b THEN a ELSE b
               hi == IF a <= b THEN b ELSE a
           IN  /\ lo < 4 => ret = [ok |-> FALSE, err |-> MIN_WORD_LENGTH_ERR]
               /\ (lo >= 4 /\ hi > 10)
                      => ret = [ok |-> FALSE, err |-> MAX_WORD_LENGTH_ERR]
               /\ (lo >= 4 /\ hi <= 10)
                      => ret.ok /\ ret.val.word_lengths = <<lo, hi>>
               /\ call.args = <<{3}, {11}>> => ~ret.ok /\ ret.err = MIN_WORD_LENGTH_ERR
               /\ call.args = <<{4}, {11}>> => ~ret.ok /\ ret.err = MAX_WORD_LENGTH_ERR
               /\ call.args = <<{6}, {4}>>
                      => ret.ok /\ ret.val.word_lengths = <<4, 6>>

\* an unset maximum was taken from the policy and the pair put in order
C6_Witness ==
    /\ call.op = "with_word_lengths"
    /\ call.args = <<{6}, {}>>
    /\ self.word_lengths = <<5, 5>>
    /\ settings.word_lengths = <<5, 6>>

\* C7: with_word_transforms(flags) with an altercase flag in flags succeeds
\* with that altercase flag alone; with neither an altercase nor a single-word
\* flag it fails with the invalid-transform error; otherwise it succeeds with
\* word_transforms = flags.
C7_WordTransforms ==
    call.op = "with_word_transforms"
        => LET flags == call.args[1]
           IN  /\ flags \cap AltercaseFlags # {}
                      => /\ ret.ok
                         /\ \E f \in flags \cap AltercaseFlags :
                                ret.val.word_transforms = {f}
               /\ (flags \cap AltercaseFlags = {} /\ flags \cap SingleWordFlags = {})
                      => ret = [ok |-> FALSE, err |-> "invalid transform"]
               /\ (flags \cap AltercaseFlags = {} /\ flags \cap SingleWordFlags # {})
                      => ret.ok /\ ret.val.word_transforms = flags

\* a single-word flag given alongside an altercase flag was dropped
C7_Witness ==
    /\ call.op = "with_word_transforms"
    /\ call.args[1] = {"AltercaseUpperFirst", "Titlecase"}
    /\ settings.word_transforms = {"AltercaseUpperFirst"}

\* the last call is one of those that must fail
FailingCall ==
    \/ call.op = "with_words_count" /\ call.args[1] = 0
    \/ /\ call.op = "with_word_lengths"
       /\ \E x \in call.args[1] \cup call.args[2] : x < 4 \/ x > 10
    \/ call.op = "with_padding_strategy" /\ call.args[1] = <<"Adaptive", 0>>
    \/ /\ call.op = "with_word_transforms"
       /\ call.args[1] \cap (AltercaseFlags \cup SingleWordFlags) = {}

\* C8: a builder call that fails returns an error and no policy, and the
\* policy it was called on is the one the caller still holds.
C8_FailedCallLeavesPolicy ==
    FailingCall
        => /\ ~ret.ok
           /\ DOMAIN ret = {"ok", "err"}
           /\ settings = self

\* with_words_count(0) failed on a policy an earlier call had changed
C8_Witness ==
    /\ call.op = "with_words_count"
    /\ call.args[1] = 0
    /\ ~ret.ok
    /\ settings.padding_strategy = <<"Adaptive", 1>>

\* the field each of the six calls is for
OwnField ==
    [with_words_count     |-> "words_count",
     with_word_lengths    |-> "word_lengths",
     with_separators      |-> "separators",
     with_padding_digits  |-> "padding_digits",
     with_padding_symbols |-> "padding_symbols",
     with_word_transforms |-> "word_transforms"]

\* C9: with_words_count, with_word_lengths, with_separators,
\* with_padding_digits, with_padding_symbols and with_word_transforms, when
\* they succeed, change no field but their own, and with_padding_digits keeps
\* the current value of a side left unset.
C9_OwnFieldOnly ==
    (call.op \in DOMAIN OwnField /\ ret.ok)
        => /\ SameExcept({OwnField[call.op]})
           /\ call.op = "with_padding_digits"
                  => \A side \in 1 .. 2 :
                         ret.val.padding_digits[side] =
                             IF call.args[side] = {}
                             THEN self.padding_digits[side]
                             ELSE CHOOSE x \in call.args[side] : TRUE

\* digits were set on one side of an Adaptive policy
C9_Witness ==
    /\ call.op = "with_padding_digits"
    /\ call.args = <<{}, {3}>>
    /\ self.padding_digits = <<4, 4>>
    /\ settings.padding_digits = <<4, 3>>
    /\ IsAdaptive(settings.padding_strategy)

(***************************************************************************)
(* Properties of the word selection, checked under SpecWords.              *)
(***************************************************************************)
\* no two positions of the list hold the same value
PairwiseDistinct(list) ==
    \A j, k \in DOMAIN list : j # k => list[j] # list[k]

IgnoringCase(list) == [k \in DOMAIN list |-> to_lowercase(list[k])]

\* C10: with pool.len() >= words_count > 0 the selection returns exactly
\* words_count words, taken in draw order from words_count pairwise distinct
\* pool indices; if the pool's words differ pairwise ignoring case, so do the
\* words returned.
C10_DistinctSelection ==
    (pc = "done" /\ Len(pool) >= settings.words_count /\ settings.words_count > 0)
        => /\ Len(words_list) = settings.words_count
           /\ Len(indices) = settings.words_count
           /\ PairwiseDistinct(indices)
           /\ \A k \in DOMAIN words_list :
                  /\ indices[k] \in 0 .. Len(pool) - 1
                  /\ words_list[k] = pool[indices[k] + 1]
           /\ PairwiseDistinct(IgnoringCase(pool))
                  => PairwiseDistinct(IgnoringCase(words_list))

\* three words were selected from a pool of exactly three words that differ
\* ignoring case, the last draw ending the selection
C10_Witness ==
    /\ pc = "done"
    /\ Len(pool) = 3
    /\ settings.words_count = 3
    /\ PairwiseDistinct(IgnoringCase(pool))
    /\ Len(words_list) = 3

(***************************************************************************)
(* Strings of the Randomizer.  str::len counts bytes, chars() characters;  *)
(* the characters named U+00E9 and U+00C9 take two bytes in UTF-8, the     *)
(* others one.                                                             *)
(***************************************************************************)
MultiByteChars == {"U+00E9", "U+00C9"}

len_utf8(c) == IF c \in MultiByteChars THEN 2 ELSE 1

RECURSIVE str_len(_)
str_len(s) == IF s = <<>> THEN 0 ELSE len_utf8(Head(s)) + str_len(Tail(s))

\* str::repeat of a one-character string
repeat(c, count) == [k \in 1 .. count |-> c]

\* a call that returned v, a call that panicked
Return(v) == [ok |-> TRUE, val |-> v]

Panic(msg) == [ok |-> FALSE, panic |-> msg]

UNWRAP_NONE == "called Option::unwrap() on a None value"

\* the values rng.gen_range(0..pool.len()) can give; nothing is drawn for an
\* empty pool
gen_range_chars(chars_pool) ==
    IF chars_pool = <<>> THEN {<<>>}
    ELSE {<<idx>> : idx \in 0 .. str_len(chars_pool) - 1}

\* rand_chars(pool, count), draws being what it drew from the random source
rand_chars(chars_pool, count, draws) ==
    IF chars_pool = <<>>
    THEN Return(<<>>)
    ELSE LET idx == draws[1]
         IN  IF idx + 1 \in DOMAIN chars_pool
             THEN Return(repeat(chars_pool[idx + 1], count))
             ELSE Panic(UNWRAP_NONE)

(***************************************************************************)
(* Unsigned 64-bit integers of rand_digits.  A value is the sequence of    *)
(* its base-LIMB digits, least significant first, without leading zero     *)
(* limbs (0 is the empty sequence), so that values up to u64::MAX and the  *)
(* powers of ten beyond it can be told apart.                              *)
(***************************************************************************)
LIMB == 10000000

LIMB_DIGITS == 7

U8_MAX == 255

\* u64::MAX = 18446744073709551615
U64_MAX == <<9551615, 4407370, 184467>>

RECURSIVE less_from(_, _, _)
less_from(a, b, k) ==
    IF k = 0 THEN FALSE
    ELSE IF a[k] # b[k] THEN a[k] < b[k]
    ELSE less_from(a, b, k - 1)

\* a < b
less(a, b) ==
    IF Len(a) # Len(b) THEN Len(a) < Len(b) ELSE less_from(a, b, Len(a))

RECURSIVE add_small(_, _)
\* a + n for n < LIMB
add_small(a, n) ==
    IF n = 0 THEN a
    ELSE IF a = <<>> THEN <<n>>
    ELSE LET sum == Head(a) + n
         IN  <<sum % LIMB>> \o add_small(Tail(a), sum \div LIMB)

RECURSIVE strip(_)
strip(a) ==
    IF a # <<>> /\ a[Len(a)] = 0 THEN strip(SubSeq(a, 1, Len(a) - 1)) ELSE a

RECURSIVE sub_one(_)
\* a - 1 for a > 0
sub_one(a) ==
    IF Head(a) > 0 THEN strip(<<Head(a) - 1>> \o Tail(a))
    ELSE <<LIMB - 1>> \o sub_one(Tail(a))

RECURSIVE mul_small(_, _, _)
\* a * n + carry for n < 2^31 / LIMB
mul_small(a, n, carry) ==
    IF a = <<>> THEN (IF carry = 0 THEN <<>> ELSE <<carry>>)
    ELSE LET prod == Head(a) * n + carry
         IN  <<prod % LIMB>> \o mul_small(Tail(a), n, prod \div LIMB)

RECURSIVE pow(_, _)
\* base^exp as a mathematical integer
pow(base, exp) ==
    IF exp = 0 THEN <<1>> ELSE mul_small(pow(base, exp - 1), base, 0)

\* u64::pow: the power when it fits 64 bits, an arithmetic overflow otherwise
u64_pow(base, exp) ==
    LET value == pow(base, exp)
    IN  IF less(U64_MAX, value) THEN Panic("attempt to multiply with overflow")
        ELSE Return(value)

DigitChars == <<"0", "1", "2", "3", "4", "5", "6", "7", "8", "9">>

RECURSIVE small_to_string(_)
\* the decimal numeral of n < LIMB, n > 0 giving no leading zero
small_to_string(n) ==
    IF n < 10 THEN <<DigitChars[n + 1]>>
    ELSE Append(small_to_string(n \div 10), DigitChars[(n % 10) + 1])

RECURSIVE digit_at(_, _)
\* the k-th decimal digit of n, counted from the least significant, k >= 1
digit_at(n, k) == IF k = 1 THEN n % 10 ELSE digit_at(n \div 10, k - 1)

\* the LIMB_DIGITS decimal digits of a limb, leading zeros kept
limb_to_string(n) ==
    [k \in 1 .. LIMB_DIGITS |-> DigitChars[digit_at(n, LIMB_DIGITS + 1 - k) + 1]]

RECURSIVE to_string(_)
\* u64::to_string
to_string(value) ==
    IF value = <<>> THEN <<"0">>
    ELSE IF Len(value) = 1 THEN small_to_string(value[1])
    ELSE to_string(Tail(value)) \o limb_to_string(Head(value))

\* the width rand_digits keeps of the count it is asked for, the cap being
\* one digit wider
affordable_count_wider(count) == min(21, count)

\* the width rand_digits keeps of the count it is asked for
affordable_count(count) == min(20, count)

\* the bounds of the range rand_digits samples, or the panic computing them
digit_bounds(count) ==
    LET lower_bound == u64_pow(10, affordable_count(count) - 1)
        upper_bound == IF affordable_count(count) = 20
                       THEN Return(U64_MAX)
                       ELSE u64_pow(10, affordable_count(count))
    IN  IF ~lower_bound.ok THEN lower_bound
        ELSE IF ~upper_bound.ok THEN upper_bound
        ELSE Return(<<lower_bound.val, upper_bound.val>>)

\* values Uniform::from(lower_bound..upper_bound) can give: both ends of the
\* half-open range, the value after the lower end and the double of it
gen_range_digits(count) ==
    IF count = 0 \/ ~digit_bounds(count).ok THEN {<<>>}
    ELSE LET lower_bound == digit_bounds(count).val[1]
             upper_bound == digit_bounds(count).val[2]
             sampled == {lower_bound, add_small(lower_bound, 1),
                         mul_small(lower_bound, 2, 0), sub_one(upper_bound)}
         IN  {<<value>> : value \in
                 {v \in sampled : ~less(v, lower_bound) /\ less(v, upper_bound)}}

\* rand_digits(count), draws being what it drew from the random source
rand_digits(count, draws) ==
    IF count = 0 THEN Return(<<>>)
    ELSE IF ~digit_bounds(count).ok THEN digit_bounds(count)
    ELSE Return(to_string(draws[1]))

(***************************************************************************)
(* Policies the Randomizer is run with: the presets, and the default       *)
(* policy after builder calls that set its strings, its padding counts or  *)
(* an Adaptive strategy.                                                   *)
(***************************************************************************)
GenStrings ==
    {<<>>, <<"#">>, <<"!", "@", "#">>, <<"U+00E9">>, <<"a", "U+00E9">>}

\* Adaptive targets: the small ones, the 10 of the worked example and the
\* largest a u8 holds
GenTargets == (1 .. MaxAdaptive) \cup {10, U8_MAX}

GenPolicies ==
    {from_preset(preset) : preset \in Preset}
    \cup {with_separators(Settings_default, s) : s \in GenStrings}
    \cup {with_padding_digits(Settings_default, Some(d), Some(U8_MAX - d)) :
              d \in 0 .. U8_MAX}
    \cup {with_padding_digits(
              with_padding_symbol_lengths(
                  with_padding_symbols(Settings_default, s), Some(p), Some(q)),
              Some(d), Some(affordable_count(U8_MAX) - d)) :
                  s \in GenStrings, p \in 0 .. MaxRepeat, q \in 0 .. MaxRepeat,
                  d \in 0 .. affordable_count(U8_MAX)}
    \cup {with_padding_strategy(
              with_padding_symbols(Settings_default, s), Adaptive(t)).val :
                  s \in GenStrings, t \in GenTargets}
    \cup {with_padding_strategy(
              with_padding_symbols(from_preset(preset), s), Adaptive(t)).val :
                  preset \in {"Xkcd", "Wifi"}, s \in {<<>>, <<"#">>},
                  t \in GenTargets}

\* assembled passphrases handed to the adaptive adjustment
GenPasswords ==
    {repeat("x", n) : n \in (0 .. MaxPassLen) \cup {6, 12}}
    \cup {<<"U+00E9", "x", "x">>}

InitPadding ==
    /\ settings \in GenPolicies
    /\ self = settings
    /\ call = [op |-> "builder", args |-> <<>>]
    /\ ret = Ok(settings)
    /\ ncalls = 0
    /\ WordsIdle
    /\ GenIdle

\* a call of the Randomizer on the idle policy, from its entry to its return
Returned(op, args, draws, r) ==
    /\ call' = [op |-> op, args |-> args]
    /\ rng' = draws
    /\ ret' = r
    /\ pc' = "returned"
    /\ UNCHANGED <<settings, self, ncalls, transforms_list>>
    /\ UNCHANGED <<pool, index, index_marker, words_list, indices>>

RandChars ==
    /\ pc = "idle"
    /\ \E chars_pool \in {settings.separators, settings.padding_symbols},
          count \in 0 .. MaxRepeat :
           \E draws \in gen_range_chars(chars_pool) :
               Returned("rand_chars", <<chars_pool, count>>, draws,
                        rand_chars(chars_pool, count, draws))

rand_separator(this, draws) == rand_chars(this.separators, 1, draws)

RandSeparator ==
    /\ pc = "idle"
    /\ \E draws \in gen_range_chars(settings.separators) :
           Returned("rand_separator", <<>>, draws, rand_separator(settings, draws))

RandDigits ==
    /\ pc = "idle"
    /\ \E count \in {settings.padding_digits[1], settings.padding_digits[2]} :
           \E draws \in gen_range_digits(count) :
               Returned("rand_digits", <<count>>, draws, rand_digits(count, draws))

\* the pair of two blocks, or the panic of the first block that panicked
blocks(first, second) ==
    IF ~first.ok THEN first
    ELSE IF ~second.ok THEN second
    ELSE Return(<<first.val, second.val>>)

rand_prefix(this, chars_draws, digits_draws) ==
    LET prefix_digits == this.padding_digits[1]
        prefix_symbols == this.padding_symbol_lengths[1]
    IN  blocks(rand_chars(this.padding_symbols, prefix_symbols, chars_draws),
               rand_digits(prefix_digits, digits_draws))

\* rand_suffix giving its blocks in the order of rand_prefix
rand_suffix_symbols_first(this, digits_draws, chars_draws) ==
    LET suffix_digits == this.padding_digits[2]
        suffix_symbols == this.padding_symbol_lengths[2]
    IN  blocks(rand_chars(this.padding_symbols, suffix_symbols, chars_draws),
               rand_digits(suffix_digits, digits_draws))

rand_suffix(this, digits_draws, chars_draws) ==
    LET suffix_digits == this.padding_digits[2]
        suffix_symbols == this.padding_symbol_lengths[2]
    IN  blocks(rand_digits(suffix_digits, digits_draws),
               rand_chars(this.padding_symbols, suffix_symbols, chars_draws))

RandPrefix ==
    /\ pc = "idle"
    /\ \E chars_draws \in gen_range_chars(settings.padding_symbols),
          digits_draws \in gen_range_digits(settings.padding_digits[1]) :
           Returned("rand_prefix", <<>>, chars_draws \o digits_draws,
                    rand_prefix(settings, chars_draws, digits_draws))

RandSuffix ==
    /\ pc = "idle"
    /\ \E digits_draws \in gen_range_digits(settings.padding_digits[2]),
          chars_draws \in gen_range_chars(settings.padding_symbols) :
           Returned("rand_suffix", <<>>, digits_draws \o chars_draws,
                    rand_suffix(settings, digits_draws, chars_draws))

\* usize as u8
as_u8(n) == n % (U8_MAX + 1)

Unchanged == <<"Unchanged">>

Pad(padded_symbols) == <<"Pad", padded_symbols>>

TrimTo(len) == <<"TrimTo", len>>

\* adjust_padding(pass_length); nothing is drawn unless it pads
adjust_padding(this, pass_length, draws) ==
    IF this.padding_strategy = Fixed
    THEN Return(Unchanged)
    ELSE LET length == this.padding_strategy[2]
         IN  IF length > pass_length
             THEN LET padded_symbols ==
                          rand_chars(this.padding_symbols,
                                     as_u8(length - pass_length), draws)
                  IN  IF padded_symbols.ok
                      THEN Return(Pad(padded_symbols.val))
                      ELSE padded_symbols
             ELSE Return(TrimTo(length))

\* the draws of the adaptive adjustment of a passphrase of pass_length bytes
gen_range_padding(this, pass_length) ==
    IF this.padding_strategy # Fixed /\ this.padding_strategy[2] > pass_length
    THEN gen_range_chars(this.padding_symbols)
    ELSE {<<>>}

AdjustPadding ==
    /\ pc = "idle"
    /\ \E pass_length \in {str_len(passwd) : passwd \in GenPasswords} :
           \E draws \in gen_range_padding(settings, pass_length) :
               Returned("adjust_padding", <<pass_length>>, draws,
                        adjust_padding(settings, pass_length, draws))

RECURSIVE chars_within(_, _)
\* the characters of str that lie wholly in its first n bytes
chars_within(str, n) ==
    IF str = <<>> \/ len_utf8(Head(str)) > n THEN <<>>
    ELSE <<Head(str)>> \o chars_within(Tail(str), n - len_utf8(Head(str)))

\* str[..n]: the first n bytes, which have to exist and to end at a character
\* boundary
slice_to(str, n) ==
    IF n > str_len(str)
    THEN Panic("byte index is out of bounds")
    ELSE IF str_len(chars_within(str, n)) = n
    THEN Return(chars_within(str, n))
    ELSE Panic("byte index is not a char boundary")

\* adjust_for_padding_strategy(passwd): the adaptive decision applied to the
\* assembled passphrase
adjust_for_padding_strategy(this, passwd, draws) ==
    IF this.padding_strategy = Fixed
    THEN Return(passwd)
    ELSE LET length == this.padding_strategy[2]
         IN  IF length > str_len(passwd)
             THEN LET padded_symbols ==
                          rand_chars(this.padding_symbols,
                                     as_u8(length - str_len(passwd)), draws)
                  IN  IF padded_symbols.ok
                      THEN Return(passwd \o padded_symbols.val)
                      ELSE padded_symbols
             ELSE slice_to(passwd, length)

AdjustForPaddingStrategy ==
    /\ pc = "idle"
    /\ \E passwd \in GenPasswords :
           \E draws \in gen_range_padding(settings, str_len(passwd)) :
               Returned("adjust_for_padding_strategy", <<passwd>>, draws,
                        adjust_for_padding_strategy(settings, passwd, draws))

NextPadding ==
    \/ RandChars
    \/ RandSeparator
    \/ RandDigits
    \/ RandPrefix
    \/ RandSuffix
    \/ AdjustPadding
    \/ AdjustForPaddingStrategy

SpecPadding == InitPadding /\ [][NextPadding]_vars

(***************************************************************************)
(* rand_words: the selection of build_words_list, then the transforms of   *)
(* build_transforms_list applied word by word.                             *)
(***************************************************************************)
\* str[n..]: what follows the first n bytes
slice_from(str, n) ==
    IF slice_to(str, n).ok
    THEN Return(SubSeq(str, Len(slice_to(str, n).val) + 1, Len(str)))
    ELSE slice_to(str, n)

transform_word(word, transform) ==
    CASE transform = "Titlecase" ->
             IF slice_to(word, 1).ok
             THEN Return(to_uppercase(slice_to(word, 1).val)
                             \o slice_from(word, 1).val)
             ELSE slice_to(word, 1)
      [] transform = "Uppercase" -> Return(to_uppercase(word))
      [] transform = "InversedTitlecase" ->
             IF slice_to(word, 1).ok
             THEN Return(to_lowercase(slice_to(word, 1).val)
                             \o to_uppercase(slice_from(word, 1).val))
             ELSE slice_to(word, 1)
      [] OTHER -> Return(to_lowercase(word))

\* what build_transforms_list draws: nothing under an altercase flag, one index
\* into the whitelist per word otherwise
gen_range_transforms(this) ==
    IF \/ has_flag(this.word_transforms, "AltercaseLowerFirst")
       \/ has_flag(this.word_transforms, "AltercaseUpperFirst")
    THEN {<<>>}
    ELSE [1 .. this.words_count -> 0 .. Len(whitelisted_transforms(this)) - 1]

\* build_transforms_list with the two alternations exchanged
build_transforms_list_exchanged(this, draws) ==
    IF has_flag(this.word_transforms, "AltercaseLowerFirst")
    THEN [k \in 1 .. this.words_count |->
             IF (k - 1) % 2 = 0 THEN "Uppercase" ELSE "Lowercase"]
    ELSE IF has_flag(this.word_transforms, "AltercaseUpperFirst")
    THEN [k \in 1 .. this.words_count |->
             IF (k - 1) % 2 = 0 THEN "Lowercase" ELSE "Uppercase"]
    ELSE [k \in 1 .. this.words_count |->
             whitelisted_transforms(this)[draws[k] + 1]]

\* build_transforms_list; the k-th entry is for the word of index idx = k - 1
build_transforms_list(this, draws) ==
    IF has_flag(this.word_transforms, "AltercaseLowerFirst")
    THEN [k \in 1 .. this.words_count |->
             IF (k - 1) % 2 = 0 THEN "Lowercase" ELSE "Uppercase"]
    ELSE IF has_flag(this.word_transforms, "AltercaseUpperFirst")
    THEN [k \in 1 .. this.words_count |->
             IF (k - 1) % 2 = 0 THEN "Uppercase" ELSE "Lowercase"]
    ELSE [k \in 1 .. this.words_count |->
             whitelisted_transforms(this)[draws[k] + 1]]

\* words.iter().zip(transforms.iter()).map(transform_word).collect(): the
\* rendered words, or the panic of the first word whose rendering panics
zip_transform(words, transforms) ==
    LET n == min(Len(words), Len(transforms))
        rendered == [k \in 1 .. n |-> transform_word(words[k], transforms[k])]
    IN  IF \E k \in 1 .. n : ~rendered[k].ok
        THEN rendered[CHOOSE k \in 1 .. n :
                          /\ ~rendered[k].ok
                          /\ \A j \in 1 .. k - 1 : rendered[j].ok]
        ELSE Return([k \in 1 .. n |-> rendered[k].val])

RandPoolWords ==
    {<<"f", "o", "o">>, <<"B", "a", "r">>, <<>>, <<"U+00E9", "a">>}

RandPools == UNION {[1 .. n -> RandPoolWords] : n \in 0 .. MaxRandPool}

RandTransforms ==
    {{"Lowercase", "Uppercase"}, {"Titlecase", "Uppercase"},
     {"InversedTitlecase"}, {"AltercaseLowerFirst"}, {"AltercaseUpperFirst"},
     {"AltercaseLowerFirst", "AltercaseUpperFirst", "Titlecase"}}

\* policies rand_words is run with: the default policy after with_words_count
\* and with_word_transforms, and the Web32 preset with its four words
RandPolicies ==
    {with_word_transforms(with_words_count(Settings_default, n).val, t).val :
         n \in 1 .. MaxWords, t \in RandTransforms}
    \cup {from_preset("Web32")}

InitRandWords ==
    /\ settings \in RandPolicies
    /\ self = settings
    /\ call = [op |-> "builder", args |-> <<>>]
    /\ ret = Ok(settings)
    /\ ncalls = 0
    /\ pool \in RandPools
    /\ index = None
    /\ index_marker = <<>>
    /\ words_list = <<>>
    /\ indices = <<>>
    /\ pc = "start"
    /\ GenIdle

\* the rest of rand_words once build_words_list has returned words_list
RandWords ==
    /\ pc = "done"
    /\ \E draws \in gen_range_transforms(settings) :
          /\ rng' = draws
          /\ transforms_list' = build_transforms_list(settings, draws)
          /\ ret' = zip_transform(words_list, transforms_list')
    /\ call' = [op |-> "rand_words", args |-> <<pool>>]
    /\ pc' = "returned"
    /\ UNCHANGED <<settings, self, ncalls>>
    /\ UNCHANGED <<pool, index, index_marker, words_list, indices>>

NextRandWords ==
    \/ BuildWordsList
    \/ Sample
    \/ Draw
    \/ RandWords

SpecRandWords == InitRandWords /\ [][NextRandWords]_vars

(***************************************************************************)
(* gen_pass: the assembly of a passphrase from the words, one separator,   *)
(* the prefix and suffix blocks and the padding decision.                  *)
(***************************************************************************)
\* the policy of the end-to-end scenario: the default policy after the
\* builder calls that give its fields, the symbol lengths being set after the
\* padding strategy, which resets them
end_to_end_settings ==
    LET counted == with_words_count(Settings_default, 3).val
        sized == with_word_lengths(counted, Some(4), Some(8)).val
        fixed == with_padding_strategy(
                     with_padding_symbols(
                         with_padding_digits(with_separators(sized, <<".">>),
                                             Some(0), Some(2)),
                         <<"!", "@", "#">>),
                     Fixed).val
    IN  with_word_transforms(
            with_padding_symbol_lengths(fixed, Some(0), Some(2)),
            {"Lowercase", "Uppercase"}).val

RECURSIVE join(_, _)
\* the words with the separator between each two of them
join(words, separator) ==
    IF words = <<>> THEN <<>>
    ELSE IF Len(words) = 1 THEN words[1]
    ELSE words[1] \o separator \o join(Tail(words), separator)

\* prefix + joined words + suffix
assemble(prefix, words, separator, suffix) ==
    prefix[1] \o prefix[2] \o join(words, separator) \o suffix[1] \o suffix[2]

\* the padding decision applied to the assembled passphrase
apply_padding(passwd, decision) ==
    CASE decision[1] = "Pad" -> passwd \o decision[2]
      [] decision[1] = "TrimTo" -> SubSeq(passwd, 1, min(decision[2], Len(passwd)))
      [] OTHER -> passwd

GenPoolWords == {<<"f", "o", "o", "z">>, <<"b", "a", "r", "z">>}

GenPools == UNION {[1 .. n -> GenPoolWords] : n \in 0 .. MaxGenPool}

GenPassPolicies ==
    {end_to_end_settings,
     with_padding_strategy(end_to_end_settings, Adaptive(10)).val}

InitGenPass ==
    /\ settings \in GenPassPolicies
    /\ self = settings
    /\ call = [op |-> "builder", args |-> <<>>]
    /\ ret = Ok(settings)
    /\ ncalls = 0
    /\ pool \in GenPools
    /\ index = None
    /\ index_marker = <<>>
    /\ words_list = <<>>
    /\ indices = <<>>
    /\ pc = "start"
    /\ GenIdle

\* the rest of gen_pass once rand_words has returned its words
GenPass ==
    /\ pc = "returned"
    /\ call.op = "rand_words"
    /\ ret.ok
    /\ \E separator_draws \in gen_range_chars(settings.separators),
          prefix_chars \in gen_range_chars(settings.padding_symbols),
          prefix_digits \in gen_range_digits(settings.padding_digits[1]),
          suffix_digits \in gen_range_digits(settings.padding_digits[2]),
          suffix_chars \in gen_range_chars(settings.padding_symbols) :
          LET separator == rand_separator(settings, separator_draws)
              prefix == rand_prefix(settings, prefix_chars, prefix_digits)
              suffix == rand_suffix(settings, suffix_digits, suffix_chars)
              passwd == assemble(prefix.val, ret.val, separator.val, suffix.val)
          IN  IF separator.ok /\ prefix.ok /\ suffix.ok
              THEN \E padding_draws \in gen_range_padding(settings, Len(passwd)) :
                      LET padding ==
                              adjust_padding(settings, Len(passwd), padding_draws)
                      IN  /\ rng' = rng \o separator_draws \o prefix_chars
                                        \o prefix_digits \o suffix_digits
                                        \o suffix_chars \o padding_draws
                          /\ ret' = IF padding.ok
                                    THEN Return(apply_padding(passwd, padding.val))
                                    ELSE padding
              ELSE /\ rng' = rng \o separator_draws \o prefix_chars
                                 \o prefix_digits \o suffix_digits \o suffix_chars
                   /\ ret' = IF ~separator.ok THEN separator
                             ELSE IF ~prefix.ok THEN prefix
                             ELSE suffix
    /\ call' = [op |-> "gen_pass", args |-> <<pool>>]
    /\ pc' = "generated"
    /\ UNCHANGED <<settings, self, ncalls, transforms_list>>
    /\ UNCHANGED <<pool, index, index_marker, words_list, indices>>

NextGenPass ==
    \/ BuildWordsList
    \/ Sample
    \/ Draw
    \/ RandWords
    \/ GenPass

SpecGenPass == InitGenPass /\ [][NextGenPass]_vars

(***************************************************************************)
(* main: the policy of custom_settings, then a passphrase generated with   *)
(* it.                                                                     *)
(***************************************************************************)
\* the builder chain of custom_settings; a failing call ends the chain with
\* its error (the ? operator)
custom_settings(symbols) ==
    LET counted == with_words_count(Settings_default, 3)
        sized == IF counted.ok
                 THEN with_word_lengths(counted.val, Some(4), Some(8))
                 ELSE counted
        padded == IF sized.ok
                  THEN with_padding_strategy(
                           with_padding_symbol_lengths(
                               with_padding_symbols(
                                   with_padding_digits(
                                       with_separators(sized.val, <<".">>),
                                       Some(0), Some(2)),
                                   symbols),
                               Some(0), Some(2)),
                           Fixed)
                  ELSE sized
    IN  IF padded.ok
        THEN with_word_transforms(padded.val, {"Lowercase", "Uppercase"})
        ELSE padded

\* symbol pools custom_settings is tried with
CustomSymbols == {<<"!", "@", "#">>, <<"#">>}

InitCustom ==
    /\ settings = Settings_default
    /\ self = settings
    /\ call = [op |-> "default", args |-> <<>>]
    /\ ret = Ok(settings)
    /\ ncalls = 0
    /\ pool \in GenPools
    /\ index = None
    /\ index_marker = <<>>
    /\ words_list = <<>>
    /\ indices = <<>>
    /\ pc = "building"
    /\ GenIdle

\* main building its policy: expect("Invalid settings") ends the program on
\* an error, gen_pass starts on the policy otherwise
CustomSettings ==
    /\ pc = "building"
    /\ \E symbols \in CustomSymbols :
          /\ call' = [op |-> "custom_settings", args |-> <<symbols>>]
          /\ ret' = custom_settings(symbols)
    /\ self' = settings
    /\ settings' = IF ret'.ok THEN ret'.val ELSE settings
    /\ pc' = IF ret'.ok THEN "start" ELSE "failed"
    /\ ncalls' = ncalls + 1
    /\ UNCHANGED <<pool, index, index_marker, words_list, indices>>
    /\ UNCHANGED genVars

NextCustom ==
    \/ CustomSettings
    \/ BuildWordsList
    \/ Sample
    \/ Draw
    \/ RandWords
    \/ GenPass

SpecCustom == InitCustom /\ [][NextCustom]_vars

(***************************************************************************)
(* Properties of the padding functions, checked under SpecPadding.         *)
(***************************************************************************)
\* the string of count copies of one character of chars_pool, or the empty
\* string for an empty pool
IsRepeatOf(str, chars_pool, count) ==
    IF chars_pool = <<>>
    THEN str = <<>>
    ELSE /\ Len(str) = count
         /\ \E k \in DOMAIN chars_pool : \A j \in DOMAIN str : str[j] = chars_pool[k]

\* C19: rand_chars(pool, count), and rand_separator with it, completes
\* without error for every string the builder accepts, multi-byte characters
\* included: the index drawn designates a character of the pool and the
\* result is count copies of it, or the empty string for an empty pool.
C19_RandCharsCompletes ==
    /\ call.op = "rand_chars"
           => ret.ok /\ IsRepeatOf(ret.val, call.args[1], call.args[2])
    /\ call.op = "rand_separator"
           => ret.ok /\ IsRepeatOf(ret.val, settings.separators, 1)

\* a decimal numeral of exactly width digits, the first of them not 0
IsNumeral(str, width) ==
    /\ Len(str) = width
    /\ \A k \in DOMAIN str : \E d \in DOMAIN DigitChars : str[k] = DigitChars[d]
    /\ width > 0 => str[1] # "0"

\* C16: rand_digits(d) returns the empty string for d = 0 and otherwise a
\* decimal numeral of exactly min(d, 20) digits with a non-zero leading
\* digit, for every d in 0..255; computing the bounds does not overflow and
\* the sampled value lies in the unsigned 64-bit range.
C16_RandDigits ==
    call.op = "rand_digits" =>
        /\ ret.ok
        /\ IsNumeral(ret.val, min(call.args[1], 20))
        /\ \A k \in DOMAIN rng : ~less(U64_MAX, rng[k])

C16_Witness ==
    /\ call.op = "rand_digits"
    /\ call.args[1] = U8_MAX
    /\ ret.ok
    /\ rng = <<sub_one(U64_MAX)>>
    /\ ret.val = <<"1", "8", "4", "4", "6", "7", "4", "4", "0", "7",
                   "3", "7", "0", "9", "5", "5", "1", "6", "1", "4">>

\* C13: adjust_padding(current_length) returns Unchanged for every length
\* under Fixed; under Adaptive(target) it returns a Pad decision carrying
\* exactly target - current_length copies of one character of
\* padding_symbols when target > current_length, and TrimTo(target) when
\* target <= current_length.
C13_AdjustPadding ==
    call.op = "adjust_padding" =>
        LET current_length == call.args[1]
            target == settings.padding_strategy[2]
        IN  IF settings.padding_strategy = Fixed
            THEN ret = Return(Unchanged)
            ELSE IF target > current_length
            THEN /\ ret.ok
                 /\ ret.val[1] = "Pad"
                 /\ Len(ret.val[2]) = target - current_length
                 /\ \E k \in DOMAIN settings.padding_symbols :
                        \A j \in DOMAIN ret.val[2] :
                            ret.val[2][j] = settings.padding_symbols[k]
            ELSE ret = Return(TrimTo(target))

\* C14: under Adaptive(target), for every policy the builder gives and
\* every assembled passphrase, the adaptive decision applied last yields a
\* passphrase of exactly target characters.
C14_AdaptiveExactLength ==
    (call.op = "adjust_for_padding_strategy" /\ IsAdaptive(settings.padding_strategy)) =>
        ret.ok /\ Len(ret.val) = settings.padding_strategy[2]

\* C15: with a non-empty padding_symbols pool, rand_prefix yields a symbol
\* block then a digit block and rand_suffix a digit block then a symbol
\* block; the symbol block is one character of padding_symbols repeated
\* exactly as the side's symbol count says and the digit block has exactly
\* the side's digit count of digits, for counts 0..20, so that a side whose
\* two counts are 0 is empty.
C15_PrefixSuffixBlocks ==
    /\ (/\ call.op = "rand_prefix"
        /\ settings.padding_symbols # <<>>
        /\ settings.padding_digits[1] <= 20)
           => /\ ret.ok
              /\ IsRepeatOf(ret.val[1], settings.padding_symbols,
                            settings.padding_symbol_lengths[1])
              /\ IsNumeral(ret.val[2], settings.padding_digits[1])
    /\ (/\ call.op = "rand_suffix"
        /\ settings.padding_symbols # <<>>
        /\ settings.padding_digits[2] <= 20)
           => /\ ret.ok
              /\ IsNumeral(ret.val[1], settings.padding_digits[2])
              /\ IsRepeatOf(ret.val[2], settings.padding_symbols,
                            settings.padding_symbol_lengths[2])

(***************************************************************************)
(* Properties of rand_words, checked under SpecRandWords.                  *)
(***************************************************************************)
\* the alternation of an altercase flag over count words, first being the
\* transform of the word of index 0 and second of the word of index 1
Alternating(count, first, second) ==
    [k \in 1 .. count |-> IF (k - 1) % 2 = 0 THEN first ELSE second]

\* C12: under an altercase flag the transform list is a function of
\* words_count alone, drawn from no random source: for AltercaseLowerFirst
\* the word of 0-based index i gets Lowercase if i is even and Uppercase if
\* i is odd, for AltercaseUpperFirst Uppercase if i is even and Lowercase if
\* i is odd; its length is words_count.
C12_AltercaseDeterministic ==
    call.op = "rand_words" =>
        /\ has_flag(settings.word_transforms, "AltercaseLowerFirst")
               => /\ transforms_list =
                         Alternating(settings.words_count, "Lowercase", "Uppercase")
                  /\ rng = <<>>
        /\ (/\ ~has_flag(settings.word_transforms, "AltercaseLowerFirst")
            /\ has_flag(settings.word_transforms, "AltercaseUpperFirst"))
               => /\ transforms_list =
                         Alternating(settings.words_count, "Uppercase", "Lowercase")
                  /\ rng = <<>>

\* the four words of Web32 got Upper, Lower, Upper, Lower
C12_Witness ==
    /\ call.op = "rand_words"
    /\ settings = from_preset("Web32")
    /\ transforms_list = <<"Uppercase", "Lowercase", "Uppercase", "Lowercase">>
    /\ ret.ok
    /\ Len(ret.val) = 4

\* the renderings of word under the transforms of a set
Renderings(word, transforms) ==
    {transform_word(word, transform) : transform \in transforms}

\* C11: for an empty pool rand_words returns the empty sequence whatever
\* words_count is; for a pool with 0 < pool.len() < words_count it returns
\* exactly words_count words, each a rendering of a pool word, fewer than
\* words_count of them distinct ignoring case.
C11_SmallPool ==
    call.op = "rand_words" =>
        /\ pool = <<>> => ret = Return(<<>>)
        /\ (0 < Len(pool) /\ Len(pool) < settings.words_count)
               => /\ ret.ok
                  /\ Len(ret.val) = settings.words_count
                  /\ \A k \in DOMAIN ret.val :
                         \E j \in DOMAIN pool :
                             Return(ret.val[k])
                                 \in Renderings(pool[j], SingleWordFlags)
                  /\ Cardinality({to_lowercase(ret.val[k]) : k \in DOMAIN ret.val})
                         < settings.words_count

\* C17: without an altercase flag, every word rand_words returns is its pool
\* word rendered under a single-word transform enabled in the policy, never
\* under a disabled one, the transform being drawn word by word.
C17_EnabledTransformsOnly ==
    (/\ call.op = "rand_words"
     /\ settings.word_transforms \cap AltercaseFlags = {}
     /\ ret.ok)
        => /\ Len(ret.val) = Len(words_list)
           /\ \A k \in DOMAIN ret.val :
                  /\ transforms_list[k] \in SingleWordFlags
                  /\ has_flag(settings.word_transforms, transforms_list[k])
                  /\ Return(ret.val[k])
                         = transform_word(words_list[k], transforms_list[k])
                  /\ Return(ret.val[k])
                         \in Renderings(pool[indices[k] + 1],
                                        settings.word_transforms)

\* two words of one call were rendered under different enabled transforms
C17_Witness ==
    /\ call.op = "rand_words"
    /\ settings.word_transforms = {"Lowercase", "Uppercase"}
    /\ ret.ok
    /\ words_list = <<<<"f", "o", "o">>, <<"f", "o", "o">>, <<"B", "a", "r">>>>
    /\ ret.val = <<<<"F", "O", "O">>, <<"f", "o", "o">>, <<"b", "a", "r">>>>

(***************************************************************************)
(* Properties of the assembly, checked under SpecGenPass.                  *)
(***************************************************************************)
\* the words rand_words returned to gen_pass
RenderedWords == zip_transform(words_list, transforms_list).val

Unmarked == {i \in 0 .. Len(pool) - 1 : i \notin DOMAIN index_marker}

\* C20: the reject-and-resample loop, entered with pool.len() >= words_count,
\* has an unmarked pool index at the start of each of its rounds, and under a
\* fair random source it ends with words_count words selected.
C20_LoopTerminates ==
    /\ [](pc = "loop" => Unmarked # {} /\ Len(pool) >= settings.words_count)
    /\ (pc = "loop")
           ~> (pc = "done" /\ Len(words_list) = settings.words_count)

\* a pool of exactly words_count words, all but one selected, and the last
\* draw rejected for an index already marked
C20_Witness ==
    /\ pc = "loop"
    /\ Len(pool) = settings.words_count
    /\ Cardinality(Unmarked) = 1
    /\ \E i \in DOMAIN index_marker :
           index = Some(i) /\ i # indices[Len(indices)]

(***************************************************************************)
(* Properties of main's policy, checked under SpecCustom.                  *)
(***************************************************************************)
\* C21: the builder chain of custom_settings succeeds and yields a policy
\* with padding_digits (0,2), padding_symbol_lengths (0,2) and the Fixed
\* strategy, so that its passphrases end in 2 digits followed by the same
\* symbol twice.
C21_CustomSettings ==
    /\ pc # "building"
           => /\ pc # "failed"
              /\ settings.padding_digits = <<0, 2>>
              /\ settings.padding_symbol_lengths = <<0, 2>>
              /\ settings.padding_strategy = Fixed
    /\ call.op = "gen_pass"
           => /\ ret.ok
              /\ Len(ret.val) >= 4
              /\ LET n == Len(ret.val)
                 IN  /\ IsNumeral(SubSeq(ret.val, n - 3, n - 2), 2)
                     /\ ret.val[n - 1] \in {settings.padding_symbols[k] :
                                               k \in DOMAIN settings.padding_symbols}
                     /\ ret.val[n] = ret.val[n - 1]

(***************************************************************************)
(* Repeated builder calls, checked under Spec.                             *)
(***************************************************************************)
BuilderOps ==
    {"with_words_count", "with_word_lengths", "with_separators",
     "with_padding_digits", "with_padding_symbols",
     "with_padding_symbol_lengths", "with_padding_strategy",
     "with_word_transforms"}

\* C22: every builder operation is idempotent: when a call f succeeds on a
\* policy p, the same call on f(p) succeeds and returns f(p).
C22_Idempotent ==
    (call.op \in BuilderOps /\ ret.ok) => builder_call(settings, call) = ret

\* with_word_lengths was given one side only, and that side lies beyond the
\* other side of the policy it was called on
Crossing ==
    /\ call.op = "with_word_lengths"
    /\ \/ /\ call.args[1] # None
          /\ call.args[2] = None
          /\ unwrap_or(call.args[1], 0) > self.word_lengths[2]
       \/ /\ call.args[1] = None
          /\ call.args[2] # None
          /\ unwrap_or(call.args[2], 0) < self.word_lengths[1]

\* the one length with_word_lengths was given
GivenLength ==
    IF call.args[1] # None
    THEN unwrap_or(call.args[1], 0)
    ELSE unwrap_or(call.args[2], 0)

\* C22, amended: a builder call that succeeds returns the same policy when
\* it is repeated on its result, except with_word_lengths given one side
\* only, with a length beyond the other side of the policy: the repeated call
\* then succeeds with both lengths equal to the length given, which is not
\* the result of the first call.
C22_IdempotentUnlessCrossing ==
    (call.op \in BuilderOps /\ ret.ok)
        => IF Crossing
           THEN /\ builder_call(settings, call) =
                       Ok([settings EXCEPT
                               !.word_lengths = <<GivenLength, GivenLength>>])
                /\ builder_call(settings, call) # ret
           ELSE builder_call(settings, call) = ret

\* a minimum of 10 was set on a policy whose maximum was below it
C22_Witness ==
    /\ call.op = "with_word_lengths"
    /\ call.args = <<Some(MAX_WORD_LENGTH), None>>
    /\ ret.ok
    /\ Crossing
    /\ settings.word_lengths = <<self.word_lengths[2], MAX_WORD_LENGTH>>
    /\ builder_call(settings, call).val.word_lengths
           = <<MAX_WORD_LENGTH, MAX_WORD_LENGTH>>

(***************************************************************************)
(* Rendering of the pool words, checked under SpecRandWords.               *)
(***************************************************************************)
\* the rendering of a word under a transform, the word being split after its
\* first character
RenderedByCharacter(word, transform) ==
    LET first == IF word = <<>> THEN <<>> ELSE <<Head(word)>>
        remainder == IF word = <<>> THEN <<>> ELSE Tail(word)
    IN  CASE transform = "Lowercase" -> to_lowercase(word)
          [] transform = "Uppercase" -> to_uppercase(word)
          [] transform = "Titlecase" -> to_uppercase(first) \o remainder
          [] transform = "InversedTitlecase" ->
                 to_lowercase(first) \o to_uppercase(remainder)
          [] OTHER -> to_lowercase(word)

\* C23: rendering is defined for every pool word and every transform, the
\* empty word and a word with a multi-byte first character included:
\* rand_words on a non-empty pool never fails, and each word it returns is
\* the selected word converted whole (Lowercase, Uppercase), with its first
\* character uppercased and the remainder unchanged (Titlecase), or with its
\* first character lowercased and the remainder uppercased
\* (InversedTitlecase).
C23_RenderingDefined ==
    (call.op = "rand_words" /\ pool # <<>>)
        => /\ ret.ok
           /\ Len(ret.val) = Len(words_list)
           /\ \A k \in DOMAIN ret.val :
                  ret.val[k] = RenderedByCharacter(words_list[k],
                                                   transforms_list[k])

====
